---- MODULE Spec2Model ----
(***************************************************************************)
(* Model of the InstallPrompt React component (InstallPrompt.js): the PWA  *)
(* install banner, its two localStorage flags, its two setTimeout timers   *)
(* and the asynchronous wait on the browser prompt's userChoice.           *)
(*                                                                         *)
(* Time is counted in whole days and kept relative: a 7-day timer is the   *)
(* number of days it still has to run, and the age of the last dismissal   *)
(* is counted up to 7 days.  The show delay (1000 ms) is far below one     *)
(* day, so a pending show timer fires before the day advances; a cooldown  *)
(* timer fires on the day it is due, before the next day starts.           *)
(*                                                                         *)
(* A component instance that was unmounted keeps its timers and its        *)
(* awaiting click handlers (nothing clears them); they are tracked as      *)
(* "stale": their React state setters no longer do anything, their         *)
(* localStorage writes still do.  Closing or reloading the page drops      *)
(* every timer and every awaiting handler.                                 *)
(***************************************************************************)
EXTENDS Integers, FiniteSets

\* ---- bounds of the model ----
MaxSig == 2        \* number of beforeinstallprompt events delivered in a run

\* ---- program constants ----
CooldownDays == 7  \* 7 * 24 * 60 * 60 * 1000 ms

NoSignal == 0      \* deferredPrompt === null
Signals == 1..MaxSig
Outcomes == {"accepted", "dismissed"}

VARIABLES
    phase,           \* "mounted" | "unmounted" (page open, component gone) | "closed"
    installed,       \* localStorage 'appInstalled' is set
    dismissed,       \* localStorage 'installPromptDismissed' is set
    promptDismissed, \* snapshot of 'installPromptDismissed' read by the effect
    alreadyInstalled,\* snapshot of 'appInstalled' read by the effect
    showPrompt,      \* React state showPrompt of the mounted instance
    deferredPrompt,  \* React state deferredPrompt of the mounted instance
    showTimers,      \* pending show-delay timers: [live |-> n, stale |-> n], and
                     \* history: how many of the live ones were pending when
                     \* handleAppInstalled last ran (timers fire in the order set)
    cooldownTimers,  \* pending 7-day timers, each the days it has left:
                     \* [live |-> set of 0..7, stale |-> set of 0..7]
    awaiting,        \* click handlers suspended at await userChoice: [sig, live]
    promptCalls,     \* prompt() invocations per event: 0, 1, or 2 for "more than one"
    nextSig,         \* next event the platform will deliver
    sinceDismiss,    \* history: days since the most recent handleDismiss, counted
                     \* up to CooldownDays; -1 if there was none
    last             \* history: the handler that ran last

vars == <<phase, installed, dismissed, promptDismissed, alreadyInstalled,
          showPrompt, deferredPrompt, showTimers, cooldownTimers, awaiting,
          promptCalls, nextSig, sinceDismiss, last>>

\* prompt() invocations are counted exactly up to "more than one".
Counted(n) == IF n < 2 THEN n + 1 ELSE n

Op(name, sig, own) == [op |-> name, sig |-> sig, own |-> own]

TypeOK ==
    /\ phase \in {"mounted", "unmounted", "closed"}
    /\ installed \in BOOLEAN /\ dismissed \in BOOLEAN
    /\ promptDismissed \in BOOLEAN /\ alreadyInstalled \in BOOLEAN
    /\ showPrompt \in BOOLEAN
    /\ deferredPrompt \in {NoSignal} \cup Signals
    /\ showTimers.live \in 0..MaxSig /\ showTimers.stale \in 0..MaxSig
    /\ showTimers.overridden \in 0..showTimers.live
    /\ cooldownTimers.live \subseteq 0..CooldownDays
    /\ cooldownTimers.stale \subseteq 0..CooldownDays
    /\ awaiting \subseteq [sig : Signals, live : BOOLEAN]
    /\ promptCalls \in [Signals -> 0..2]
    /\ nextSig \in 1..(MaxSig + 1)
    /\ sinceDismiss \in -1..CooldownDays

\* MountEffect whose display-mode test is always taken.
MountEffect_Unconditional(standalone) ==
    /\ showPrompt' = FALSE
    /\ deferredPrompt' = NoSignal
    /\ promptDismissed' = dismissed
    /\ alreadyInstalled' = installed
    /\ installed' = TRUE
    /\ phase' = "mounted"

\* MountEffect that stores the display mode itself in 'appInstalled'.
MountEffect_Overwrites(standalone) ==
    /\ showPrompt' = FALSE
    /\ deferredPrompt' = NoSignal
    /\ promptDismissed' = dismissed
    /\ alreadyInstalled' = installed
    /\ installed' = standalone
    /\ phase' = "mounted"

\* The effect body of a fresh instance: useState initial values, the two
\* localStorage reads, then the standalone check.
MountEffect(standalone) ==
    /\ showPrompt' = FALSE
    /\ deferredPrompt' = NoSignal
    /\ promptDismissed' = dismissed
    /\ alreadyInstalled' = installed
    /\ installed' = (installed \/ standalone)
    /\ phase' = "mounted"

Init ==
    /\ phase = "closed"
    /\ installed = FALSE
    /\ dismissed = FALSE
    /\ promptDismissed = FALSE
    /\ alreadyInstalled = FALSE
    /\ showPrompt = FALSE
    /\ deferredPrompt = NoSignal
    /\ showTimers = [live |-> 0, stale |-> 0, overridden |-> 0]
    /\ cooldownTimers = [live |-> {}, stale |-> {}]
    /\ awaiting = {}
    /\ promptCalls = [s \in Signals |-> 0]
    /\ nextSig = 1
    /\ sinceDismiss = -1
    /\ last = Op("none", NoSignal, FALSE)

\* The component is mounted (page load, or re-mount in an open page).
Mount ==
    /\ phase # "mounted"
    /\ \E standalone \in BOOLEAN :
          /\ MountEffect(standalone)
          /\ last' = Op(IF standalone THEN "MountStandalone" ELSE "Mount", NoSignal, TRUE)
    /\ UNCHANGED <<dismissed, showTimers, cooldownTimers, awaiting,
                   promptCalls, nextSig, sinceDismiss>>

\* The effect cleanup: only the two listeners are removed.
Unmount ==
    /\ phase = "mounted"
    /\ phase' = "unmounted"
    /\ showPrompt' = FALSE
    /\ deferredPrompt' = NoSignal
    /\ showTimers' = [live |-> 0, stale |-> showTimers.stale + showTimers.live,
                      overridden |-> 0]
    /\ cooldownTimers' = [live |-> {},
                          stale |-> cooldownTimers.stale \cup cooldownTimers.live]
    /\ awaiting' = {[sig |-> r.sig, live |-> FALSE] : r \in awaiting}
    /\ last' = Op("Unmount", NoSignal, TRUE)
    /\ UNCHANGED <<installed, dismissed, promptDismissed, alreadyInstalled,
                   promptCalls, nextSig, sinceDismiss>>

\* The page is closed or reloaded: only localStorage survives.
PageUnload ==
    /\ phase # "closed"
    /\ phase' = "closed"
    /\ showPrompt' = FALSE
    /\ deferredPrompt' = NoSignal
    /\ showTimers' = [live |-> 0, stale |-> 0, overridden |-> 0]
    /\ cooldownTimers' = [live |-> {}, stale |-> {}]
    /\ awaiting' = {}
    /\ last' = Op("PageUnload", NoSignal, FALSE)
    /\ UNCHANGED <<installed, dismissed, promptDismissed, alreadyInstalled,
                   promptCalls, nextSig, sinceDismiss>>

\* handleBeforeInstallPrompt that keeps an event it already holds.
handleBeforeInstallPrompt_KeepsOld ==
    /\ phase # "closed"
    /\ nextSig <= MaxSig
    /\ nextSig' = nextSig + 1
    /\ IF phase = "mounted"
       THEN /\ deferredPrompt' = IF deferredPrompt = NoSignal THEN nextSig
                                 ELSE deferredPrompt
            /\ showTimers' = IF ~promptDismissed /\ ~alreadyInstalled
                             THEN [showTimers EXCEPT !.live = @ + 1]
                             ELSE showTimers
       ELSE UNCHANGED <<deferredPrompt, showTimers>>
    /\ last' = Op("BeforeInstallPrompt", nextSig, phase = "mounted")
    /\ UNCHANGED <<phase, installed, dismissed, promptDismissed,
                   alreadyInstalled, showPrompt, cooldownTimers, awaiting,
                   promptCalls, sinceDismiss>>

\* The platform dispatches beforeinstallprompt on the window.
handleBeforeInstallPrompt ==
    /\ phase # "closed"
    /\ nextSig <= MaxSig
    /\ nextSig' = nextSig + 1
    /\ IF phase = "mounted"
       THEN /\ deferredPrompt' = nextSig
            /\ showTimers' = IF ~promptDismissed /\ ~alreadyInstalled
                             THEN [showTimers EXCEPT !.live = @ + 1]
                             ELSE showTimers
       ELSE UNCHANGED <<deferredPrompt, showTimers>>
    /\ last' = Op("BeforeInstallPrompt", nextSig, phase = "mounted")
    /\ UNCHANGED <<phase, installed, dismissed, promptDismissed,
                   alreadyInstalled, showPrompt, cooldownTimers, awaiting,
                   promptCalls, sinceDismiss>>

\* handleAppInstalled whose listener is not removed by the cleanup.
handleAppInstalled_NoCleanup ==
    /\ phase # "closed"
    /\ installed' = TRUE
    /\ IF phase = "mounted"
       THEN /\ showPrompt' = FALSE
            /\ showTimers' = [showTimers EXCEPT !.overridden = showTimers.live]
       ELSE UNCHANGED <<showPrompt, showTimers>>
    /\ last' = Op("AppInstalled", NoSignal, phase = "mounted")
    /\ UNCHANGED <<phase, dismissed, promptDismissed, alreadyInstalled,
                   deferredPrompt, cooldownTimers, awaiting,
                   promptCalls, nextSig, sinceDismiss>>

\* The platform dispatches appinstalled on the window.
handleAppInstalled ==
    /\ phase # "closed"
    /\ IF phase = "mounted"
       THEN /\ installed' = TRUE
            /\ showPrompt' = FALSE
            /\ showTimers' = [showTimers EXCEPT !.overridden = showTimers.live]
       ELSE UNCHANGED <<installed, showPrompt, showTimers>>
    /\ last' = Op("AppInstalled", NoSignal, phase = "mounted")
    /\ UNCHANGED <<phase, dismissed, promptDismissed, alreadyInstalled,
                   deferredPrompt, cooldownTimers, awaiting,
                   promptCalls, nextSig, sinceDismiss>>

\* A show-delay timer of the mounted instance expires: setShowPrompt(true).
ShowTimerFires ==
    /\ showTimers.live > 0
    /\ showTimers' = [showTimers EXCEPT !.live = @ - 1,
                                        !.overridden = IF @ > 0 THEN @ - 1 ELSE 0]
    /\ showPrompt' = TRUE
    /\ last' = Op("ShowTimer", NoSignal, TRUE)
    /\ UNCHANGED <<phase, installed, dismissed, promptDismissed,
                   alreadyInstalled, deferredPrompt, cooldownTimers, awaiting,
                   promptCalls, nextSig, sinceDismiss>>

\* A show-delay timer of an unmounted instance expires: its setter does nothing.
StaleShowTimerFires ==
    /\ showTimers.stale > 0
    /\ showTimers' = [showTimers EXCEPT !.stale = @ - 1]
    /\ last' = Op("ShowTimer", NoSignal, FALSE)
    /\ UNCHANGED <<phase, installed, dismissed, promptDismissed,
                   alreadyInstalled, showPrompt, deferredPrompt, cooldownTimers,
                   awaiting, promptCalls, nextSig, sinceDismiss>>

\* handleInstallClick with a fallback branch that also closes the banner.
handleInstallClick_FallbackHides ==
    /\ phase = "mounted"
    /\ showPrompt
    /\ IF deferredPrompt = NoSignal
       THEN /\ last' = Op("Fallback", NoSignal, TRUE)
            /\ showPrompt' = FALSE
            /\ UNCHANGED <<promptCalls, awaiting>>
       ELSE /\ promptCalls' = [promptCalls EXCEPT ![deferredPrompt] = Counted(@)]
            /\ awaiting' = awaiting \cup {[sig |-> deferredPrompt, live |-> TRUE]}
            /\ last' = Op("Prompt", deferredPrompt, TRUE)
            /\ UNCHANGED showPrompt
    /\ UNCHANGED <<phase, installed, dismissed, promptDismissed,
                   alreadyInstalled, deferredPrompt, showTimers,
                   cooldownTimers, nextSig, sinceDismiss>>

\* The user activates "Install App" on the rendered banner: the part of
\* handleInstallClick up to the await.
handleInstallClick ==
    /\ phase = "mounted"
    /\ showPrompt
    /\ IF deferredPrompt = NoSignal
       THEN /\ last' = Op("Fallback", NoSignal, TRUE)
            /\ UNCHANGED <<promptCalls, awaiting>>
       ELSE /\ promptCalls' = [promptCalls EXCEPT ![deferredPrompt] = Counted(@)]
            /\ awaiting' = awaiting \cup {[sig |-> deferredPrompt, live |-> TRUE]}
            /\ last' = Op("Prompt", deferredPrompt, TRUE)
    /\ UNCHANGED <<phase, installed, dismissed, promptDismissed,
                   alreadyInstalled, showPrompt, deferredPrompt, showTimers,
                   cooldownTimers, nextSig, sinceDismiss>>

\* InstallOutcome that records the installation whatever the outcome is.
InstallOutcome_AlwaysInstalled(sig, outcome) ==
    /\ \E r \in awaiting : r.sig = sig
    /\ installed' = TRUE
    /\ IF [sig |-> sig, live |-> TRUE] \in awaiting
       THEN /\ deferredPrompt' = NoSignal
            /\ showPrompt' = FALSE
       ELSE UNCHANGED <<deferredPrompt, showPrompt>>
    /\ awaiting' = {r \in awaiting : r.sig # sig}
    /\ last' = Op(IF outcome = "accepted" THEN "OutcomeAccepted" ELSE "OutcomeDismissed",
                  sig, [sig |-> sig, live |-> TRUE] \in awaiting)
    /\ UNCHANGED <<phase, dismissed, promptDismissed, alreadyInstalled,
                   showTimers, cooldownTimers, promptCalls, nextSig, sinceDismiss>>

\* InstallOutcome that forgets setDeferredPrompt(null).
InstallOutcome_KeepsSignal(sig, outcome) ==
    /\ \E r \in awaiting : r.sig = sig
    /\ installed' = (installed \/ outcome = "accepted")
    /\ IF [sig |-> sig, live |-> TRUE] \in awaiting
       THEN showPrompt' = FALSE
       ELSE UNCHANGED showPrompt
    /\ UNCHANGED deferredPrompt
    /\ awaiting' = {r \in awaiting : r.sig # sig}
    /\ last' = Op(IF outcome = "accepted" THEN "OutcomeAccepted" ELSE "OutcomeDismissed",
                  sig, [sig |-> sig, live |-> TRUE] \in awaiting)
    /\ UNCHANGED <<phase, dismissed, promptDismissed, alreadyInstalled,
                   showTimers, cooldownTimers, promptCalls, nextSig, sinceDismiss>>

\* userChoice of event sig resolves: every handler awaiting it continues.
InstallOutcome(sig, outcome) ==
    /\ \E r \in awaiting : r.sig = sig
    /\ installed' = (installed \/ outcome = "accepted")
    /\ IF [sig |-> sig, live |-> TRUE] \in awaiting
       THEN /\ deferredPrompt' = NoSignal
            /\ showPrompt' = FALSE
       ELSE UNCHANGED <<deferredPrompt, showPrompt>>
    /\ awaiting' = {r \in awaiting : r.sig # sig}
    /\ last' = Op(IF outcome = "accepted" THEN "OutcomeAccepted" ELSE "OutcomeDismissed",
                  sig, [sig |-> sig, live |-> TRUE] \in awaiting)
    /\ UNCHANGED <<phase, dismissed, promptDismissed, alreadyInstalled,
                   showTimers, cooldownTimers, promptCalls, nextSig, sinceDismiss>>

userChoiceResolves ==
    \E sig \in Signals, outcome \in Outcomes : InstallOutcome(sig, outcome)

\* handleDismiss that also drops the held event.
handleDismiss_DropsSignal ==
    /\ phase = "mounted"
    /\ showPrompt
    /\ showPrompt' = FALSE
    /\ deferredPrompt' = NoSignal
    /\ dismissed' = TRUE
    /\ sinceDismiss' = 0
    /\ cooldownTimers' = [cooldownTimers EXCEPT !.live = @ \cup {CooldownDays}]
    /\ last' = Op("Dismiss", NoSignal, TRUE)
    /\ UNCHANGED <<phase, installed, promptDismissed, alreadyInstalled,
                   showTimers, awaiting, promptCalls, nextSig>>

\* handleDismiss that forgets setShowPrompt(false).
handleDismiss_NoHide ==
    /\ phase = "mounted"
    /\ showPrompt
    /\ dismissed' = TRUE
    /\ sinceDismiss' = 0
    /\ cooldownTimers' = [cooldownTimers EXCEPT !.live = @ \cup {CooldownDays}]
    /\ last' = Op("Dismiss", NoSignal, TRUE)
    /\ UNCHANGED <<phase, installed, promptDismissed, alreadyInstalled,
                   showPrompt, deferredPrompt, showTimers, awaiting, promptCalls,
                   nextSig>>

\* The user activates the close icon or "Maybe later" on the rendered banner.
handleDismiss ==
    /\ phase = "mounted"
    /\ showPrompt
    /\ showPrompt' = FALSE
    /\ dismissed' = TRUE
    /\ sinceDismiss' = 0
    /\ cooldownTimers' = [cooldownTimers EXCEPT !.live = @ \cup {CooldownDays}]
    /\ last' = Op("Dismiss", NoSignal, TRUE)
    /\ UNCHANGED <<phase, installed, promptDismissed, alreadyInstalled,
                   deferredPrompt, showTimers, awaiting, promptCalls, nextSig>>

\* A 7-day timer started by the mounted instance expires: removeItem.
CooldownTimerFires ==
    /\ \E t \in cooldownTimers.live :
          /\ t = 0
          /\ cooldownTimers' = [cooldownTimers EXCEPT !.live = @ \ {t}]
    /\ dismissed' = FALSE
    /\ last' = Op("CooldownTimer", NoSignal, TRUE)
    /\ UNCHANGED <<phase, installed, promptDismissed, alreadyInstalled,
                   showPrompt, deferredPrompt, showTimers, awaiting, promptCalls,
                   nextSig, sinceDismiss>>

\* A 7-day timer started by an unmounted instance expires: removeItem.
StaleCooldownTimerFires ==
    /\ \E t \in cooldownTimers.stale :
          /\ t = 0
          /\ cooldownTimers' = [cooldownTimers EXCEPT !.stale = @ \ {t}]
    /\ dismissed' = FALSE
    /\ last' = Op("CooldownTimer", NoSignal, FALSE)
    /\ UNCHANGED <<phase, installed, promptDismissed, alreadyInstalled,
                   showPrompt, deferredPrompt, showTimers, awaiting, promptCalls,
                   nextSig, sinceDismiss>>

\* A timer is due: its delay has run out.
TimerDue ==
    \/ showTimers.live + showTimers.stale > 0
    \/ 0 \in cooldownTimers.live \cup cooldownTimers.stale

\* A day passes; due timers have fired first.
Tick ==
    /\ ~TimerDue
    /\ cooldownTimers' = [live |-> {t - 1 : t \in cooldownTimers.live},
                          stale |-> {t - 1 : t \in cooldownTimers.stale}]
    /\ sinceDismiss' = IF sinceDismiss \in 0..(CooldownDays - 1)
                       THEN sinceDismiss + 1 ELSE sinceDismiss
    /\ last' = Op("Tick", NoSignal, FALSE)
    /\ UNCHANGED <<phase, installed, dismissed, promptDismissed, alreadyInstalled,
                   showPrompt, deferredPrompt, showTimers,
                   awaiting, promptCalls, nextSig>>

Next ==
    \/ Mount
    \/ Unmount
    \/ PageUnload
    \/ handleBeforeInstallPrompt
    \/ handleAppInstalled
    \/ ShowTimerFires
    \/ StaleShowTimerFires
    \/ handleInstallClick
    \/ userChoiceResolves
    \/ handleDismiss
    \/ CooldownTimerFires
    \/ StaleCooldownTimerFires
    \/ Tick

Spec == Init /\ [][Next]_vars

\* Timers that are due do fire while the page is open; user and platform
\* events are under no obligation to happen.
FairSpec ==
    /\ Spec
    /\ WF_vars(ShowTimerFires)
    /\ WF_vars(StaleShowTimerFires)
    /\ WF_vars(CooldownTimerFires)
    /\ WF_vars(StaleCooldownTimerFires)


\* ------------------------------------------------------------------------
\* Properties
\* ------------------------------------------------------------------------

\* The running instance's own handler awaiting userChoice of event sig.
OwnAwait(sig) == [sig |-> sig, live |-> TRUE] \in awaiting

\* C1: in every reachable state, if the persisted installed flag is true the
\* banner is not visible.
C1_InstalledNeverVisible == installed => ~showPrompt

\* C2: while the persisted dismissed flag is true and fewer than 7 days have
\* passed since the dismissal, the banner is not visible.
C2_DismissedCooldownNeverVisible ==
    (dismissed /\ sinceDismiss \in 0..(CooldownDays - 1)) => ~showPrompt

\* C3: when appinstalled reaches the instance while shows are scheduled, the
\* banner is hidden at once, and none of the shows that were pending at that
\* moment makes the banner visible when its delay elapses.
C3_InstalledCancelsPendingShow ==
    [][ /\ (handleAppInstalled /\ phase = "mounted") => ~showPrompt'
        /\ (ShowTimerFires /\ showTimers.overridden > 0) => ~showPrompt' ]_vars

\* C4: once 7 days have passed since the last dismiss (no timer is still due)
\* and installed is false, an installability signal received by the mounted
\* instance schedules the show of the banner.
C4_SignalAfterCooldownSchedulesShow ==
    [][ ( /\ handleBeforeInstallPrompt
          /\ phase = "mounted"
          /\ sinceDismiss >= CooldownDays
          /\ ~TimerDue
          /\ ~installed )
        => showTimers'.live = showTimers.live + 1 ]_vars

\* C5: requestInstall with a held signal invokes that signal's prompt and
\* awaits its outcome; when the outcome resolves, accepted leaves installed
\* true, dismissed leaves installed as it was, and in both cases the banner of
\* the instance that asked is hidden.
C5_RequestInstallOutcome ==
    [][ /\ (handleInstallClick /\ deferredPrompt # NoSignal)
              => /\ promptCalls'[deferredPrompt] = Counted(promptCalls[deferredPrompt])
                 /\ [sig |-> deferredPrompt, live |-> TRUE] \in awaiting'
        /\ \A s \in Signals :
              /\ InstallOutcome(s, "accepted")
                    => installed' /\ (OwnAwait(s) => ~showPrompt')
              /\ InstallOutcome(s, "dismissed")
                    => (installed' = installed) /\ (OwnAwait(s) => ~showPrompt') ]_vars

\* C5 witness: the instance's own request resolved accepted.
C5_Witness ==
    /\ last.op = "OutcomeAccepted" /\ last.own
    /\ installed /\ ~showPrompt /\ promptCalls[last.sig] >= 1

\* C6: requestInstall with no held signal only shows the fallback message:
\* flags, visibility, held signal, prompt invocations and awaited outcomes
\* are all unchanged.
C6_FallbackChangesNothing ==
    [][ (handleInstallClick /\ deferredPrompt = NoSignal)
        => /\ last'.op = "Fallback"
           /\ UNCHANGED <<installed, dismissed, showPrompt, deferredPrompt,
                          promptCalls, awaiting, showTimers, cooldownTimers>> ]_vars

\* C6 witness: the fallback branch ran (banner visible, no signal held).
C6_Witness == last.op = "Fallback" /\ showPrompt /\ deferredPrompt = NoSignal

\* C7: right after dismiss the banner is hidden and the persisted dismissed
\* flag is true.
C7_DismissHidesAndPersists ==
    last.op = "Dismiss" => (~showPrompt /\ dismissed /\ sinceDismiss = 0)

\* C7 witness: dismiss ran while another show was still scheduled and a
\* requestInstall was awaiting its outcome.
C7_Witness ==
    /\ last.op = "Dismiss"
    /\ showTimers.live > 0
    /\ \E s \in Signals : OwnAwait(s)

\* C8: a timer of a torn-down instance that expires neither makes the banner
\* visible nor removes the persisted dismissed flag.
C8_NoTimerActsAfterTeardown ==
    [][ (StaleShowTimerFires \/ StaleCooldownTimerFires)
        => /\ (showPrompt' => showPrompt)
           /\ (dismissed => dismissed') ]_vars

\* C9: the prompt action of every captured signal is invoked at most once.
C9_PromptAtMostOnce == \A s \in Signals : promptCalls[s] <= 1

\* C10: when the outcome of a prompted signal resolves, that signal is held no
\* more and the instance that asked holds no signal at all; at every moment
\* the held signal is one event or none.
C10_ConsumedSignalCleared ==
    /\ deferredPrompt \in {NoSignal} \cup Signals
    /\ last.op \in {"OutcomeAccepted", "OutcomeDismissed"}
          => /\ deferredPrompt # last.sig
             /\ last.own => deferredPrompt = NoSignal

\* C10 witness: the instance's own request resolved dismissed after a newer
\* signal had been delivered.
C10_Witness ==
    /\ last.op = "OutcomeDismissed" /\ last.own
    /\ last.sig < nextSig - 1
    /\ deferredPrompt = NoSignal


\* C11: the display-mode check at mount leaves installed true when the page is
\* standalone and as it was otherwise, and changes neither the visibility,
\* the held signal nor the dismissed flag.
C11_DisplayModeCheck ==
    [][ Mount => /\ installed' = (installed \/ last'.op = "MountStandalone")
                 /\ UNCHANGED <<showPrompt, deferredPrompt, dismissed>> ]_vars

\* C11 witness: a standalone mount set the flag that was not set before.
C11_Witness ==
    last.op = "MountStandalone" /\ installed /\ ~alreadyInstalled /\ dismissed

\* C12: a signal that reaches the mounted instance becomes the held signal
\* whatever was held and whatever the flags are, and the step changes neither
\* the persisted flags nor the visibility.
C12_SignalStoredOnly ==
    [][ (handleBeforeInstallPrompt /\ phase = "mounted")
        => /\ deferredPrompt' = nextSig
           /\ UNCHANGED <<installed, dismissed, showPrompt>> ]_vars

\* C12 witness: a later signal replaced a held, never prompted one in the
\* instance that had just been dismissed (dismissed flag set).
C12_Witness ==
    /\ last.op = "BeforeInstallPrompt" /\ last.own
    /\ last.sig > 1 /\ deferredPrompt = last.sig
    /\ \A s \in Signals : promptCalls[s] = 0
    /\ dismissed /\ ~promptDismissed /\ sinceDismiss = 0

\* C13: the persisted dismissed flag is removed no earlier than 7 days after
\* the most recent dismiss.
C13_ClearedOnlyAfterCooldown ==
    [][ (dismissed /\ ~dismissed') => sinceDismiss >= CooldownDays ]_vars

\* The events C14 excludes after the signal: onInstalled, dismiss,
\* requestInstall (click or outcome) and teardown.
Interfered ==
    last.op \in {"AppInstalled", "Dismiss", "Prompt", "Fallback",
                 "OutcomeAccepted", "OutcomeDismissed", "Unmount", "PageUnload"}

\* C14: a signal received by the mounted instance while both persisted flags
\* are false leads to the banner being visible, unless onInstalled, dismiss,
\* requestInstall or teardown happens first.
C14_SignalLeadsToVisible ==
    (last.op = "BeforeInstallPrompt" /\ last.own /\ ~installed /\ ~dismissed)
        ~> (showPrompt \/ Interfered)

\* C15: when the outcome of an older signal resolves while the instance holds
\* a newer, never prompted signal, the newer signal is still held.
C15_NewerSignalKept ==
    [][ \A s \in Signals :
          ( /\ userChoiceResolves
            /\ last'.sig = s
            /\ OwnAwait(s)
            /\ deferredPrompt \notin {NoSignal, s}
            /\ promptCalls[deferredPrompt] = 0 )
          => deferredPrompt' = deferredPrompt ]_vars

\* C16: the persisted installed flag never goes back to false, and the
\* dismissed flag is removed by nothing but a 7-day timer.
C16_InstalledMonotonic ==
    [][ /\ installed => installed'
        /\ (dismissed /\ ~dismissed')
              => (CooldownTimerFires \/ StaleCooldownTimerFires) ]_vars

\* C16 witness: installed is still set after a reload and a later removal of
\* the dismissed flag by its timer.
C16_Witness ==
    /\ last.op = "CooldownTimer"
    /\ installed /\ alreadyInstalled /\ ~dismissed

\* C17: platform events dispatched while the component is unmounted change
\* neither the held signal, the visibility, the persisted flags nor the timers.
C17_NoEventsAfterTeardown ==
    [][ (phase = "unmounted" /\ (handleBeforeInstallPrompt \/ handleAppInstalled))
        => UNCHANGED <<deferredPrompt, showPrompt, installed, dismissed,
                       showTimers, cooldownTimers, awaiting>> ]_vars

\* C17 witness: appinstalled was dispatched after the unmount and the flag is
\* still unset.
C17_Witness ==
    last.op = "AppInstalled" /\ ~last.own /\ phase = "unmounted" /\ ~installed

\* C18: whenever the banner is visible a signal is held.
C18_VisibleImpliesSignal == showPrompt => deferredPrompt # NoSignal

\* C19: dismiss leaves the installed flag and the held signal unchanged;
\* onInstalled leaves the dismissed flag and the held signal unchanged.
C19_FlagsIndependent ==
    [][ /\ handleDismiss => UNCHANGED <<installed, deferredPrompt>>
        /\ handleAppInstalled => UNCHANGED <<dismissed, deferredPrompt>> ]_vars

\* C19 witness: onInstalled reached the instance while it held a signal and the
\* dismissed flag was set.
C19_Witness ==
    /\ last.op = "AppInstalled" /\ last.own
    /\ dismissed /\ deferredPrompt # NoSignal /\ installed

====
